---- MODULE Spec2Model ----
(***************************************************************************)
(* Model of src/src/resolver.cpp: a Resolver whose io_service runs on a    *)
(* dedicated I/O thread, an InputManager whose Run() loop drives it from   *)
(* the UI thread, and the mutex / condition variable / m_resolved flag     *)
(* with which the I/O thread tells the UI thread that a resolution is done.*)
(*                                                                         *)
(* Spec     : the program built by main(): InputManager::Run + I/O thread. *)
(* LiveSpec : Spec with the fairness of the scheduler and of the lookup.   *)
(* SpecApi  : class Resolver driven through its public member functions in *)
(*            any order by one caller thread (no InputManager::Run).       *)
(***************************************************************************)
EXTENDS Integers, Sequences, FiniteSets, TLC

VARIABLES
    pc,             \* position of the UI (caller) thread
    m_exit,         \* InputManager::m_exit
    m_hostname,     \* Resolver::m_hostname, a sequence of characters
    m_port_number,  \* Resolver::m_port_number, a sequence of characters
    m_resolved,     \* Resolver::m_resolved
    m_work,         \* TRUE while Resolver::m_work holds an io_service::work
    mutex,          \* owner of *m_mutex: "none", "ui" or "io"
    wakeup,         \* a notify_one has reached the thread blocked in wait()
    w_pc,           \* position of the I/O thread
    inflight,       \* async_resolve operations whose lookup has not finished
    ready,          \* completion handlers posted to m_ios, in order
    cur,            \* the result the running handler was invoked with
    index,          \* output_endpoints' local index
    ret,            \* last return of resolve_dns: "none", "true" or "false"
    accepted,       \* history: resolve_dns calls that returned true
    signals,        \* history: executions of set_resolved(true)
    returns,        \* history: returns of the UI thread's wait block
    errors,         \* history: error reports written by on_process_endpoints
    close_called,   \* history: close() has been entered
    closed,         \* history: close() has returned
    busy_close,     \* history: close() was entered with a resolution pending
    has_blocked,    \* history: the current wait has released the lock and blocked
    host_set,       \* history: set_hostname has been called
    port_set        \* history: set_port_number has been called

vars == <<pc, m_exit, m_hostname, m_port_number, m_resolved, m_work, mutex,
          wakeup, w_pc, inflight, ready, cur, index, ret, accepted, signals,
          returns, errors, close_called, closed, busy_close, has_blocked,
          host_set, port_set>>

-----------------------------------------------------------------------------
(* Bounds of the model *)

\* resolve_dns calls accepted in one run
MaxRequests == 2
\* longest line typed at the hostname prompt
MaxHostLen == 4
\* most endpoints one lookup returns
MaxEndpoints == 1

-----------------------------------------------------------------------------
(* Strings are sequences of one-character strings *)

Letters == {"a"}
Digits == {"0", "1", "2", "3", "4", "5", "6", "7", "8", "9"}
HostChars == {"a", ".", "-"}

SeqsUpTo(S, n) == UNION {[1..k -> S] : k \in 0..n}

\* lines the user may type at the "Enter a new hostname" prompt
HostInputs == SeqsUpTo(HostChars, MaxHostLen)

\* numbers the user may type at the "Enter a new port number" prompt
PortInputs == {-1, 0, 80, 443, 40000}

\* std::to_string of a non-negative integer
DigitChar(d) == <<"0", "1", "2", "3", "4", "5", "6", "7", "8", "9">>[d + 1]

RECURSIVE to_string(_)
to_string(n) ==
    IF n < 10 THEN <<DigitChar(n)>>
    ELSE to_string(n \div 10) \o <<DigitChar(n % 10)>>

isalpha(c) == c \in Letters
isdigit(c) == c \in Digits

\* the for loop of get_hostname over hostname[i..], with its three locals
RECURSIVE ScanHostname(_, _, _)
ScanHostname(hostname, i, st) ==
    IF i > Len(hostname) THEN st
    ELSE IF isalpha(hostname[i]) \/ isdigit(hostname[i])
         THEN ScanHostname(hostname, i + 1,
                  [st EXCEPT !.character_count = @ + 1])
    ELSE IF hostname[i] = "."
         THEN ScanHostname(hostname, i + 1,
                  [st EXCEPT !.period_count = @ + 1])
    ELSE [st EXCEPT !.rejected = TRUE]

MINIMUM_CHARACTER_COUNT == 3

\* a get_hostname that returns whatever line was typed
HostnameAccepted_unvalidated(hostname) == TRUE

\* one pass of get_hostname's do-while body: TRUE when the line is returned
HostnameAccepted(hostname) ==
    IF hostname = <<>> THEN FALSE
    ELSE LET st == ScanHostname(hostname, 1,
                       [rejected |-> FALSE, period_count |-> 0,
                        character_count |-> 0])
             r1 == st.rejected \/ st.character_count < MINIMUM_CHARACTER_COUNT
             r2 == r1 \/ st.period_count = 0
         IN  ~r2

\* one pass of get_port_number's do-while body on the number typed:
\* extraction into a short fails outside its range, then the sign check
PortAccepted(n) ==
    /\ n >= -32768 /\ n <= 32767
    /\ ~(n <= 0)

\* static_cast<unsigned short> of the short returned by get_port_number
ToUnsignedShort(n) == n % 65536

-----------------------------------------------------------------------------
(* Results a lookup can complete with: an error code and the endpoints *)

NoError == 0
ErrorCodes == {1}

Outcomes ==
    {[ec |-> NoError, n |-> k] : k \in 0..MaxEndpoints}
        \cup {[ec |-> e, n |-> 0] : e \in ErrorCodes}

NoResult == [ec |-> NoError, n |-> -1]

-----------------------------------------------------------------------------
(* State after main() has constructed ios, resolver and input_manager *)

Init ==
    /\ pc = "input"
    /\ m_exit = FALSE
    /\ m_hostname = <<>>
    /\ m_port_number = <<>>
    /\ m_resolved = FALSE
    /\ m_work = TRUE
    /\ mutex = "none"
    /\ wakeup = FALSE
    /\ w_pc = "run"
    /\ inflight = 0
    /\ ready = <<>>
    /\ cur = NoResult
    /\ index = 0
    /\ ret = "none"
    /\ accepted = 0
    /\ signals = 0
    /\ returns = 0
    /\ errors = 0
    /\ close_called = FALSE
    /\ closed = FALSE
    /\ busy_close = FALSE
    /\ has_blocked = FALSE
    /\ host_set = FALSE
    /\ port_set = FALSE

uiVars == <<pc, m_exit, has_blocked>>
reqVars == <<m_hostname, m_port_number, host_set, port_set>>
ioVars == <<w_pc, cur, index>>
loopVars == <<inflight, ready>>
histVars == <<ret, accepted, signals, returns, errors>>
closeVars == <<m_work, close_called, closed, busy_close>>

\* resolutions submitted to m_resolver whose handler has not finished
Pending == inflight + Len(ready) + (IF cur = NoResult THEN 0 ELSE 1)

-----------------------------------------------------------------------------
(* Resolver *)

\* verify with the two tests joined by && instead of ||
verify_both_empty ==
    IF m_hostname = <<>> /\ m_port_number = <<>> THEN FALSE ELSE TRUE

\* Resolver::verify
verify ==
    IF m_hostname = <<>> \/ m_port_number = <<>> THEN FALSE ELSE TRUE

\* resolve_dns that resolves synchronously and runs the handler's
\* signalling on the calling thread before it returns
resolve_dns_runs_handler_inline(at, onTrue, onFalse) ==
    /\ pc = at
    /\ IF verify
       THEN /\ accepted' = accepted + 1
            /\ signals' = signals + 1
            /\ m_resolved' = TRUE
            /\ ret' = "true"
            /\ pc' = onTrue
       ELSE /\ ret' = "false"
            /\ pc' = onFalse
            /\ UNCHANGED <<accepted, signals, m_resolved>>
    /\ UNCHANGED <<m_exit, has_blocked, reqVars, mutex, wakeup, ioVars,
                   loopVars, returns, errors, closeVars>>

\* Resolver::resolve_dns, called with the caller at position `at`: the
\* caller continues at onTrue when it returns true, at onFalse otherwise.
\* async_resolve only starts the operation; the handler runs later on the
\* thread inside m_ios.run().
resolve_dns(at, onTrue, onFalse) ==
    /\ pc = at
    /\ IF verify
       THEN /\ inflight' = inflight + 1
            /\ accepted' = accepted + 1
            /\ ret' = "true"
            /\ pc' = onTrue
       ELSE /\ ret' = "false"
            /\ pc' = onFalse
            /\ UNCHANGED <<inflight, accepted>>
    /\ UNCHANGED <<m_exit, has_blocked, reqVars, m_resolved, mutex, wakeup,
                   ioVars, ready, signals, returns, errors, closeVars>>

\* close that joins without releasing the work object
close_reset_keeps_work(at) ==
    /\ pc = at
    /\ close_called' = TRUE
    /\ busy_close' = (Pending > 0)
    /\ pc' = "join"
    /\ UNCHANGED <<m_exit, has_blocked, reqVars, m_resolved, mutex, wakeup,
                   ioVars, loopVars, histVars, closed, m_work>>

\* Resolver::close, first statement: m_work.reset(nullptr)
close_reset(at) ==
    /\ pc = at
    /\ m_work' = FALSE
    /\ close_called' = TRUE
    /\ busy_close' = (Pending > 0)
    /\ pc' = "join"
    /\ UNCHANGED <<m_exit, has_blocked, reqVars, m_resolved, mutex, wakeup,
                   ioVars, loopVars, histVars, closed>>

\* Resolver::close, second statement: m_iothread->join() returns once the
\* thread has left m_ios.run()
joined == w_pc = "exited"

\* Resolver::set_hostname
set_hostname(hostname) == m_hostname' = hostname /\ host_set' = TRUE

\* Resolver::set_port_number
set_port_number(port_number) ==
    m_port_number' = to_string(port_number) /\ port_set' = TRUE

\* Resolver::get_resolved, the predicate the UI thread waits on
get_resolved == m_resolved

-----------------------------------------------------------------------------
(* InputManager::Run, on the UI thread *)

EXIT == 0
SET_HOSTNAME == 1
SET_PORT == 2
RESOLVE_DNS == 3
DISPLAY_COMMANDS == 9

\* numbers the user may type at the "Enter command" prompt
CommandInputs == {EXIT, SET_HOSTNAME, SET_PORT, RESOLVE_DNS, DISPLAY_COMMANDS, 4}

\* while (!m_exit) { int input = get_input(); switch (input) ...
GetInput ==
    /\ pc = "input"
    /\ ~m_exit
    /\ \E input \in CommandInputs :
          /\ input = RESOLVE_DNS => accepted < MaxRequests
          /\ pc' = CASE input = EXIT -> "close"
                     [] input = SET_HOSTNAME -> "get_hostname"
                     [] input = SET_PORT -> "get_port_number"
                     [] input = RESOLVE_DNS -> "resolve"
                     [] input = DISPLAY_COMMANDS -> "display"
                     [] OTHER -> "default"
    /\ UNCHANGED <<m_exit, has_blocked, reqVars, m_resolved, mutex, wakeup,
                   ioVars, loopVars, histVars, closeVars>>

\* case EXIT, up to the point where close() blocks in join
RunClose == close_reset("close")

\* case EXIT without m_exit = true: the loop asks for the next command
RunJoin_loop_continues ==
    /\ pc = "join"
    /\ joined
    /\ closed' = TRUE
    /\ pc' = "input"
    /\ UNCHANGED <<m_exit, has_blocked, reqVars, m_resolved, mutex, wakeup,
                   ioVars, loopVars, histVars, m_work, close_called,
                   busy_close>>

\* case EXIT, from the return of join: m_exit = true; break
RunJoin ==
    /\ pc = "join"
    /\ joined
    /\ closed' = TRUE
    /\ m_exit' = TRUE
    /\ pc' = "done"
    /\ UNCHANGED <<has_blocked, reqVars, m_resolved, mutex, wakeup, ioVars,
                   loopVars, histVars, m_work, close_called, busy_close>>

\* case SET_HOSTNAME: one line typed at get_hostname's prompt; a rejected
\* line prompts again, an accepted one is stored by set_hostname
RunSetHostname ==
    /\ pc = "get_hostname"
    /\ \E line \in HostInputs :
          IF HostnameAccepted(line)
          THEN set_hostname(line) /\ pc' = "input"
          ELSE UNCHANGED <<m_hostname, host_set, pc>>
    /\ UNCHANGED <<m_exit, has_blocked, m_port_number, port_set, m_resolved,
                   mutex, wakeup, ioVars, loopVars, histVars, closeVars>>

\* case SET_PORT: one number typed at get_port_number's prompt
RunSetPort ==
    /\ pc = "get_port_number"
    /\ \E n \in PortInputs :
          IF PortAccepted(n)
          THEN set_port_number(ToUnsignedShort(n)) /\ pc' = "input"
          ELSE UNCHANGED <<m_port_number, port_set, pc>>
    /\ UNCHANGED <<m_exit, has_blocked, m_hostname, host_set, m_resolved,
                   mutex, wakeup, ioVars, loopVars, histVars, closeVars>>

\* case RESOLVE_DNS without the wait block
RunResolve_without_wait == resolve_dns("resolve", "input", "display")

\* case RESOLVE_DNS: if (m_resolver.resolve_dns()) { wait block; break; }
\* and when it returns false control falls through to case DISPLAY_COMMANDS
RunResolve == resolve_dns("resolve", "lock", "display")

\* a wait block that clears the flag when it takes the lock, before waiting
UILock_clears_flag ==
    /\ pc = "lock"
    /\ mutex = "none"
    /\ mutex' = "ui"
    /\ m_resolved' = FALSE
    /\ pc' = "wait"
    /\ UNCHANGED <<m_exit, has_blocked, reqVars, wakeup, ioVars, loopVars,
                   histVars, closeVars>>

\* std::unique_lock<std::mutex> lock(*m_mutex.get()), also the re-locking
\* inside condition_variable::wait after a wakeup
UILock ==
    /\ pc = "lock"
    /\ mutex = "none"
    /\ mutex' = "ui"
    /\ pc' = "wait"
    /\ UNCHANGED <<m_exit, has_blocked, reqVars, m_resolved, wakeup, ioVars,
                   loopVars, histVars, closeVars>>

\* m_condition->wait(lock) with no predicate: blocks without looking at
\* m_resolved and returns at the first wakeup
UIWait_without_predicate ==
    /\ pc = "wait"
    /\ IF has_blocked
       THEN pc' = "clear" /\ UNCHANGED <<mutex, wakeup, has_blocked>>
       ELSE /\ pc' = "blocked"
            /\ mutex' = "none"
            /\ wakeup' = FALSE
            /\ has_blocked' = TRUE
    /\ UNCHANGED <<m_exit, reqVars, m_resolved, ioVars, loopVars, histVars,
                   closeVars>>

\* if (!pred()) wait(lock): the predicate is not tested again after a wakeup
UIWait_unchecked_after_wakeup ==
    /\ pc = "wait"
    /\ IF get_resolved \/ has_blocked
       THEN pc' = "clear" /\ UNCHANGED <<mutex, wakeup, has_blocked>>
       ELSE /\ pc' = "blocked"
            /\ mutex' = "none"
            /\ wakeup' = FALSE
            /\ has_blocked' = TRUE
    /\ UNCHANGED <<m_exit, reqVars, m_resolved, ioVars, loopVars, histVars,
                   closeVars>>

\* m_condition->wait(lock, pred): while (!pred()) wait(lock); with the
\* lock held either the predicate holds and wait returns, or the lock is
\* released and the thread blocks
UIWait ==
    /\ pc = "wait"
    /\ IF get_resolved
       THEN pc' = "clear" /\ UNCHANGED <<mutex, wakeup, has_blocked>>
       ELSE /\ pc' = "blocked"
            /\ mutex' = "none"
            /\ wakeup' = FALSE
            /\ has_blocked' = TRUE
    /\ UNCHANGED <<m_exit, reqVars, m_resolved, ioVars, loopVars, histVars,
                   closeVars>>

\* the blocked thread is woken by notify_one
UIWake ==
    /\ pc = "blocked"
    /\ wakeup
    /\ pc' = "lock"
    /\ wakeup' = FALSE
    /\ UNCHANGED <<m_exit, has_blocked, reqVars, m_resolved, mutex, ioVars,
                   loopVars, histVars, closeVars>>

\* the blocked thread wakes spuriously
UISpuriousWake ==
    /\ pc = "blocked"
    /\ ~wakeup
    /\ pc' = "lock"
    /\ UNCHANGED <<m_exit, has_blocked, reqVars, m_resolved, mutex, wakeup,
                   ioVars, loopVars, histVars, closeVars>>

\* the wait block without set_resolved(false)
UIClear_skipped ==
    /\ pc = "clear"
    /\ pc' = "unlock"
    /\ UNCHANGED <<m_exit, has_blocked, reqVars, m_resolved, mutex, wakeup,
                   ioVars, loopVars, histVars, closeVars>>

\* m_resolver.set_resolved(false)
UIClear ==
    /\ pc = "clear"
    /\ m_resolved' = FALSE
    /\ pc' = "unlock"
    /\ UNCHANGED <<m_exit, has_blocked, reqVars, mutex, wakeup, ioVars,
                   loopVars, histVars, closeVars>>

\* lock.unlock(); break
UIUnlock ==
    /\ pc = "unlock"
    /\ mutex' = "none"
    /\ returns' = returns + 1
    /\ has_blocked' = FALSE
    /\ pc' = "input"
    /\ UNCHANGED <<m_exit, reqVars, m_resolved, wakeup, ioVars, loopVars, ret,
                   accepted, signals, errors, closeVars>>

\* case DISPLAY_COMMANDS: display_commands(); break
RunDisplay ==
    /\ pc = "display"
    /\ pc' = "input"
    /\ UNCHANGED <<m_exit, has_blocked, reqVars, m_resolved, mutex, wakeup,
                   ioVars, loopVars, histVars, closeVars>>

\* default: "> Command unrecognised..."; break
RunDefault ==
    /\ pc = "default"
    /\ pc' = "input"
    /\ UNCHANGED <<m_exit, has_blocked, reqVars, m_resolved, mutex, wakeup,
                   ioVars, loopVars, histVars, closeVars>>

-----------------------------------------------------------------------------
(* The I/O thread: m_ios.run(), started by Resolver::initialise_io *)

\* the resolver service finishes a lookup, with any result, and posts the
\* operation's completion handler to m_ios
LookupDone ==
    /\ inflight > 0
    /\ \E result \in Outcomes :
          ready' = Append(ready, result)
    /\ inflight' = inflight - 1
    /\ UNCHANGED <<uiVars, reqVars, m_resolved, mutex, wakeup, ioVars,
                   histVars, closeVars>>

\* a run() that returns as soon as the work object is gone
out_of_work_ignores_operations == ~m_work

\* io_service::run has nothing left to wait for: no work object and no
\* unfinished operation
out_of_work == ~m_work /\ inflight = 0 /\ ready = <<>>

\* m_ios.run() takes the next ready handler: the lambda of resolve_dns
\* calls on_process_endpoints(ec, it)
IoDispatch ==
    /\ w_pc = "run"
    /\ ready # <<>>
    /\ cur' = Head(ready)
    /\ ready' = Tail(ready)
    /\ w_pc' = "on_process_endpoints"
    /\ UNCHANGED <<uiVars, reqVars, m_resolved, mutex, wakeup, index,
                   inflight, histVars, closeVars>>

\* m_ios.run() returns and the thread function ends
IoExit ==
    /\ w_pc = "run"
    /\ out_of_work
    /\ w_pc' = "exited"
    /\ UNCHANGED <<uiVars, reqVars, m_resolved, mutex, wakeup, cur, index,
                   loopVars, histVars, closeVars>>

\* on_process_endpoints that returns after reporting an error
on_process_endpoints_returns_on_error ==
    /\ w_pc = "on_process_endpoints"
    /\ IF cur.ec # NoError
       THEN errors' = errors + 1 /\ w_pc' = "run" /\ cur' = NoResult
       ELSE errors' = errors /\ w_pc' = "header" /\ cur' = cur
    /\ UNCHANGED <<uiVars, reqVars, m_resolved, mutex, wakeup, index,
                   loopVars, ret, accepted, signals, returns, closeVars>>

\* on_process_endpoints that lets the error escape from m_ios.run()
on_process_endpoints_throws_on_error ==
    /\ w_pc = "on_process_endpoints"
    /\ IF cur.ec # NoError
       THEN errors' = errors + 1 /\ w_pc' = "exited" /\ cur' = NoResult
       ELSE errors' = errors /\ w_pc' = "header" /\ cur' = cur
    /\ UNCHANGED <<uiVars, reqVars, m_resolved, mutex, wakeup, index,
                   loopVars, ret, accepted, signals, returns, closeVars>>

\* on_process_endpoints that also reports an error for an empty result
on_process_endpoints_empty_is_error ==
    /\ w_pc = "on_process_endpoints"
    /\ errors' = IF cur.ec # NoError \/ cur.n = 0 THEN errors + 1 ELSE errors
    /\ w_pc' = "header"
    /\ UNCHANGED <<uiVars, reqVars, m_resolved, mutex, wakeup, cur, index,
                   loopVars, ret, accepted, signals, returns, closeVars>>

\* Resolver::on_process_endpoints: report an error if there is one, then
\* call output_endpoints in every case
on_process_endpoints ==
    /\ w_pc = "on_process_endpoints"
    /\ errors' = IF cur.ec # NoError THEN errors + 1 ELSE errors
    /\ w_pc' = "header"
    /\ UNCHANGED <<uiVars, reqVars, m_resolved, mutex, wakeup, cur, index,
                   loopVars, ret, accepted, signals, returns, closeVars>>

\* output_endpoints that calls set_resolved(true) before it prints
OutputHeader_sets_resolved_first ==
    /\ w_pc = "header"
    /\ index' = 0
    /\ m_resolved' = TRUE
    /\ w_pc' = "endpoints"
    /\ UNCHANGED <<uiVars, reqVars, mutex, wakeup, cur, loopVars, histVars,
                   closeVars>>

\* output_endpoints: index = 0 and the header line with m_hostname
OutputHeader ==
    /\ w_pc = "header"
    /\ index' = 0
    /\ w_pc' = "endpoints"
    /\ UNCHANGED <<uiVars, reqVars, m_resolved, mutex, wakeup, cur, loopVars,
                   histVars, closeVars>>

\* output_endpoints: one pass of the for_each lambda
OutputEndpoint ==
    /\ w_pc = "endpoints"
    /\ index < cur.n
    /\ index' = index + 1
    /\ UNCHANGED <<uiVars, reqVars, m_resolved, mutex, wakeup, w_pc, cur,
                   loopVars, histVars, closeVars>>

\* output_endpoints that notifies only when it printed an endpoint
OutputEnd_signals_only_endpoints ==
    /\ w_pc = "endpoints"
    /\ index = cur.n
    /\ IF index > 0
       THEN w_pc' = "lock" /\ cur' = cur
       ELSE w_pc' = "run" /\ cur' = NoResult
    /\ UNCHANGED <<uiVars, reqVars, m_resolved, mutex, wakeup, index,
                   loopVars, histVars, closeVars>>

\* output_endpoints: the for_each is over; std::cout << std::endl
OutputEnd ==
    /\ w_pc = "endpoints"
    /\ index = cur.n
    /\ w_pc' = "lock"
    /\ UNCHANGED <<uiVars, reqVars, m_resolved, mutex, wakeup, cur, index,
                   loopVars, histVars, closeVars>>

\* output_endpoints: std::unique_lock<std::mutex> lock(*m_mutex.get())
IoLock ==
    /\ w_pc = "lock"
    /\ mutex = "none"
    /\ mutex' = "io"
    /\ w_pc' = "set_resolved"
    /\ UNCHANGED <<uiVars, reqVars, m_resolved, wakeup, cur, index, loopVars,
                   histVars, closeVars>>

\* output_endpoints: set_resolved(true)
IoSetResolved ==
    /\ w_pc = "set_resolved"
    /\ m_resolved' = TRUE
    /\ signals' = signals + 1
    /\ w_pc' = "notify"
    /\ UNCHANGED <<uiVars, reqVars, mutex, wakeup, cur, index, loopVars, ret,
                   accepted, returns, errors, closeVars>>

\* output_endpoints without the notify_one
IoNotify_missing ==
    /\ w_pc = "notify"
    /\ w_pc' = "unlock"
    /\ UNCHANGED <<uiVars, reqVars, m_resolved, mutex, wakeup, cur, index,
                   loopVars, histVars, closeVars>>

\* output_endpoints: m_condition->notify_one() wakes the thread blocked in
\* wait, if there is one
IoNotify ==
    /\ w_pc = "notify"
    /\ wakeup' = IF pc = "blocked" THEN TRUE ELSE wakeup
    /\ w_pc' = "unlock"
    /\ UNCHANGED <<uiVars, reqVars, m_resolved, mutex, cur, index, loopVars,
                   histVars, closeVars>>

\* output_endpoints: lock.unlock(); the handler returns to m_ios.run()
IoUnlock ==
    /\ w_pc = "unlock"
    /\ mutex' = "none"
    /\ cur' = NoResult
    /\ w_pc' = "run"
    /\ UNCHANGED <<uiVars, reqVars, m_resolved, wakeup, index, loopVars,
                   histVars, closeVars>>

IoThread ==
    \/ IoDispatch
    \/ IoExit
    \/ on_process_endpoints
    \/ OutputHeader
    \/ OutputEndpoint
    \/ OutputEnd
    \/ IoLock
    \/ IoSetResolved
    \/ IoNotify
    \/ IoUnlock

\* the wait block of case RESOLVE_DNS
WaitBlock ==
    \/ UILock
    \/ UIWait
    \/ UIWake
    \/ UISpuriousWake
    \/ UIClear
    \/ UIUnlock

-----------------------------------------------------------------------------
(* The program of main() *)

Next ==
    \/ GetInput
    \/ RunClose
    \/ RunJoin
    \/ RunSetHostname
    \/ RunSetPort
    \/ RunResolve
    \/ WaitBlock
    \/ RunDisplay
    \/ RunDefault
    \/ LookupDone
    \/ IoThread

Spec == Init /\ [][Next]_vars

\* Every step of either thread is eventually scheduled, a free mutex is
\* eventually given to a thread that keeps asking for it, the platform
\* lookup finishes; the user is not obliged to type anything and a
\* spurious wakeup is not obliged to happen.
Fairness ==
    /\ WF_vars(RunClose) /\ WF_vars(RunJoin) /\ WF_vars(RunResolve)
    /\ WF_vars(RunDisplay) /\ WF_vars(RunDefault)
    /\ SF_vars(UILock) /\ WF_vars(UIWait) /\ WF_vars(UIWake)
    /\ WF_vars(UIClear) /\ WF_vars(UIUnlock)
    /\ WF_vars(LookupDone)
    /\ WF_vars(IoDispatch) /\ WF_vars(IoExit) /\ WF_vars(on_process_endpoints)
    /\ WF_vars(OutputHeader) /\ WF_vars(OutputEndpoint) /\ WF_vars(OutputEnd)
    /\ SF_vars(IoLock) /\ WF_vars(IoSetResolved) /\ WF_vars(IoNotify)
    /\ WF_vars(IoUnlock)

LiveSpec == Spec /\ Fairness

-----------------------------------------------------------------------------
(* class Resolver used through its public interface: one caller thread     *)
(* that, between calls (pc = "input"), may make any call next.  The caller *)
(* keeps the two obligations the class cannot check for itself: it writes  *)
(* the hostname and port only while no resolution is pending (the I/O      *)
(* thread reads m_hostname unlocked), and it calls close() once (a second  *)
(* join() of the same std::thread throws).                                 *)

\* arguments the caller passes to set_hostname and set_port_number
ApiHostnames == {<<>>, <<"a", ".", "a", "a">>}
ApiPorts == {0, 443}

ApiSetHostname ==
    /\ pc = "input"
    /\ Pending = 0
    /\ \E hostname \in ApiHostnames : set_hostname(hostname)
    /\ UNCHANGED <<uiVars, m_port_number, port_set, m_resolved, mutex, wakeup,
                   ioVars, loopVars, histVars, closeVars>>

ApiSetPort ==
    /\ pc = "input"
    /\ Pending = 0
    /\ \E port_number \in ApiPorts : set_port_number(port_number)
    /\ UNCHANGED <<uiVars, m_hostname, host_set, m_resolved, mutex, wakeup,
                   ioVars, loopVars, histVars, closeVars>>

\* a call of resolve_dns, whatever its result
ApiResolve ==
    /\ accepted < MaxRequests
    /\ resolve_dns("input", "input", "input")

\* the caller starts the wait block (lines 240-244)
ApiAwait ==
    /\ pc = "input"
    /\ pc' = "lock"
    /\ UNCHANGED <<m_exit, has_blocked, reqVars, m_resolved, mutex, wakeup,
                   ioVars, loopVars, histVars, closeVars>>

\* a call of close(), up to the point where it blocks in join
ApiClose ==
    /\ ~close_called
    /\ close_reset("input")

\* close() returns to the caller
ApiJoin ==
    /\ pc = "join"
    /\ joined
    /\ closed' = TRUE
    /\ pc' = "input"
    /\ UNCHANGED <<m_exit, has_blocked, reqVars, m_resolved, mutex, wakeup,
                   ioVars, loopVars, histVars, m_work, close_called,
                   busy_close>>

NextApi ==
    \/ ApiSetHostname
    \/ ApiSetPort
    \/ ApiResolve
    \/ ApiAwait
    \/ ApiClose
    \/ ApiJoin
    \/ WaitBlock
    \/ LookupDone
    \/ IoThread

SpecApi == Init /\ [][NextApi]_vars

-----------------------------------------------------------------------------
(* Properties *)

Configured == m_hostname # <<>> /\ m_port_number # <<>>

\* the UI thread is inside the wait block of an accepted request
InWaitBlock == pc \in {"lock", "wait", "blocked", "clear", "unlock"}

\* C1: with hostname and port both non-empty resolve_dns returns true, and
\* under fair scheduling the wait block that follows the k-th accepted
\* request returns, once: the UI thread is back at the prompt with exactly k
\* returns, whatever the lookup produced.
AcceptedRequestReturns ==
    /\ [][(pc = "resolve" /\ pc' # pc /\ Configured)
             => (ret' = "true" /\ pc' = "lock" /\ accepted' = accepted + 1)]_vars
    /\ \A k \in 1..MaxRequests :
          (pc = "lock" /\ accepted = k) ~> (pc = "input" /\ returns = k)
    /\ [](returns <= accepted)

AcceptedRequestReturned ==
    pc = "input" /\ ret = "true" /\ accepted = 1 /\ returns = 1

\* C2: every accepted request is signalled exactly once: the executions of
\* set_resolved(true) are exactly the handlers that have got past it, one
\* per accepted request, never more than the requests accepted, and once the
\* UI thread is out of the wait block every signal has had its one return.
SignalledExactlyOnce ==
    /\ signals <= accepted
    /\ returns <= signals
    /\ signals + Pending
          = accepted + (IF w_pc \in {"notify", "unlock"} THEN 1 ELSE 0)
    /\ ~InWaitBlock => (signals = accepted /\ returns = signals)
    /\ InWaitBlock => returns = accepted - 1

EveryOutcomeSignalled ==
    /\ pc = "input"
    /\ accepted = MaxRequests
    /\ signals = accepted
    /\ returns = signals
    /\ errors = 1

\* C3: a resolve_dns called with the hostname or the port empty returns
\* false, starts no operation, leaves m_resolved and the I/O thread alone,
\* and the UI thread goes on to display_commands without entering the wait
\* block.
EmptyRequestRejected ==
    [][(pc = "resolve" /\ pc' # pc /\ ~Configured)
          => /\ ret' = "false"
             /\ pc' = "display"
             /\ UNCHANGED <<inflight, ready, cur, w_pc, m_resolved, mutex,
                            accepted, signals, returns>>
             /\ Pending' = 0]_vars

RejectedWithoutPort ==
    /\ pc = "display"
    /\ ret = "false"
    /\ m_hostname # <<>>
    /\ m_port_number = <<>>
    /\ inflight = 0

\* C4: in every cycle m_resolved is false when resolve_dns is about to be
\* called and when the wait block has returned to the command prompt.
ResolvedClearBetweenCycles ==
    pc \in {"input", "resolve", "get_hostname", "get_port_number",
            "display", "default", "close"} => m_resolved = FALSE

SecondCycleStartsClear ==
    pc = "resolve" /\ returns >= 1 /\ signals >= 1

\* C5: a lookup that ends with a non-zero error code is reported by
\* on_process_endpoints, which then goes on to output_endpoints; the request
\* is signalled once and the UI thread returns to the prompt.
ErrorStillSignals ==
    /\ [][(w_pc = "on_process_endpoints" /\ w_pc' # w_pc /\ cur.ec # NoError)
             => (errors' = errors + 1 /\ w_pc' = "header")]_vars
    /\ \A k \in 0..MaxRequests :
          (w_pc = "on_process_endpoints" /\ cur.ec # NoError /\ signals = k)
              ~> (pc = "input" /\ signals = k + 1 /\ returns = k + 1)

ErrorReturnedToPrompt ==
    pc = "input" /\ errors = 1 /\ accepted = 1 /\ returns = 1 /\ w_pc = "run"

\* C6: after failed resolutions the I/O thread is still inside m_ios.run()
\* as long as the work object is held, and a request accepted afterwards
\* is executed and signalled.
LoopSurvivesErrors ==
    /\ []((errors > 0 /\ m_work) => w_pc # "exited")
    /\ \A k \in 1..MaxRequests :
          (errors > 0 /\ pc = "lock" /\ accepted = k /\ signals = k - 1)
              ~> (signals = k)

SignalAfterEarlierError ==
    /\ errors >= 1
    /\ w_pc = "notify"
    /\ cur.ec = NoError
    /\ signals = 2

\* C7: close() on an idle session terminates: the work object is released,
\* the I/O thread leaves run() only with no work object and nothing pending,
\* and close() has returned only when that thread has exited.
CloseTerminates ==
    /\ (pc = "close") ~> (pc = "done")
    /\ [](w_pc = "exited" => (~m_work /\ Pending = 0))
    /\ [](pc = "done" => (closed /\ w_pc = "exited" /\ ~m_work))

ClosedAfterIdle ==
    pc = "done" /\ closed /\ ~busy_close /\ returns >= 1

\* C8: once close() has returned, no resolve_dns call is accepted and no
\* operation is started.
ResolveAfterCloseFails ==
    [][closed => (accepted' = accepted /\ inflight' <= inflight)]_vars

\* C9: at most one resolution is outstanding: no request is accepted while
\* an earlier accepted one has not been signalled and consumed.
AtMostOneOutstanding ==
    /\ accepted - returns <= 1
    /\ Pending <= 1

\* C10: close() entered while a resolution is pending returns only when
\* the I/O thread has exited with every handler run: nothing is in flight,
\* queued or executing, and every accepted request has been signalled.
CloseWaitsForCallback ==
    [][(~closed /\ closed')
          => /\ w_pc = "exited"
             /\ inflight = 0 /\ ready = <<>> /\ cur = NoResult
             /\ signals = accepted]_vars

ClosedWhileResolving ==
    closed /\ busy_close /\ signals >= 1

\* C11: in the command loop close() is entered at most once and only with
\* the session idle (nothing pending, every accepted request returned), and
\* from then on the UI thread only waits in join and stops: it makes no
\* further set_hostname, set_port_number, resolve_dns, wait or close.
ClosedIsTerminal ==
    /\ [][(pc = "close" /\ pc' # pc)
             => (~close_called /\ Pending = 0 /\ accepted = returns
                    /\ ~m_resolved /\ mutex = "none")]_vars
    /\ [][close_called
             => /\ pc' \in {"join", "done"}
                /\ UNCHANGED <<m_hostname, m_port_number, host_set, port_set,
                               ret, accepted, returns, m_resolved, mutex,
                               m_work, close_called>>]_vars
    /\ [](m_exit => (pc = "done" /\ closed))

ExitedAfterConfiguredUse ==
    pc = "done" /\ m_exit /\ close_called /\ Configured /\ accepted >= 1

\* a handler invoked with no error and no endpoint
EmptyResult == cur.ec = NoError /\ cur.n = 0

\* C12: a lookup that completes with no error and zero endpoints writes no
\* error report (errors only grows for a non-zero code), prints no endpoint
\* line, and is signalled and returned from exactly like any other result.
EmptyResultIsSuccess ==
    /\ [][errors' # errors => (cur.ec # NoError /\ errors' = errors + 1)]_vars
    /\ [][(w_pc = "on_process_endpoints" /\ w_pc' # w_pc /\ EmptyResult)
             => (errors' = errors /\ w_pc' = "header")]_vars
    /\ [][(EmptyResult /\ w_pc = "endpoints" /\ w_pc' # w_pc)
             => (index = 0 /\ w_pc' = "lock")]_vars
    /\ \A k \in 0..MaxRequests :
          (w_pc = "on_process_endpoints" /\ EmptyResult /\ signals = k)
              ~> (pc = "input" /\ signals = k + 1 /\ returns = k + 1)

EmptyResultSignalled ==
    w_pc = "unlock" /\ EmptyResult /\ m_resolved /\ errors = 0 /\ signals = 1

\* C13: the wait returns only with m_resolved true and the lock held: a
\* thread that finds the predicate false, on entry or after any wakeup,
\* releases the lock and blocks again, every wakeup re-locks and re-tests,
\* and set_resolved(false) is done with the lock still held, before unlock.
WaitReturnsOnlyWhenResolved ==
    /\ [][(pc = "wait" /\ pc' # pc)
             => IF m_resolved
                THEN pc' = "clear" /\ mutex' = "ui"
                ELSE pc' = "blocked" /\ mutex' = "none"]_vars
    /\ [][(pc = "blocked" /\ pc' # pc) => pc' = "lock"]_vars
    /\ [](pc = "wait" => mutex = "ui")
    /\ [](pc = "clear" => (m_resolved /\ mutex = "ui"))
    /\ [][(pc = "clear" /\ pc' # pc)
             => (m_resolved' = FALSE /\ mutex' = "ui" /\ pc' = "unlock")]_vars
    /\ [](pc = "unlock" => (~m_resolved /\ mutex = "ui"))
    /\ [][returns' # returns
             => (pc = "unlock" /\ mutex' = "none" /\ ~m_resolved')]_vars

WokenWithoutSignal ==
    pc = "wait" /\ has_blocked /\ ~m_resolved /\ mutex = "ui" /\ ~wakeup

\* C14: m_resolved is true exactly between the I/O thread's
\* set_resolved(true) for the one accepted request and the UI thread's
\* set_resolved(false) for it; it is false at the prompt, while a request
\* has not been signalled, and after close; and there is never more than
\* one accepted request whose wait has not returned.
ResolvedOnlyInWindow ==
    /\ m_resolved
          <=> (signals = returns + 1 /\ pc \in {"lock", "wait", "blocked", "clear"})
    /\ m_resolved => (signals = accepted /\ w_pc \in {"notify", "unlock", "run"})
    /\ accepted - returns <= 1
    /\ (InWaitBlock <=> accepted = returns + 1)
    /\ close_called => ~m_resolved

SignalledNotYetConsumed ==
    m_resolved /\ pc = "blocked" /\ wakeup /\ w_pc = "run"

\* the I/O thread is inside the completion handler
InHandler ==
    w_pc \in {"on_process_endpoints", "header", "endpoints", "lock",
              "set_resolved", "notify", "unlock"}

\* C15: from an accepted resolve_dns to the return of its wait block the UI
\* thread is inside the wait block and nowhere else: it is never at the
\* hostname or port prompt, m_hostname and m_port_number do not change, and
\* the handler (which reads m_hostname) runs only in that interval.
NoConfigureInFlight ==
    /\ [](accepted # returns => InWaitBlock)
    /\ [](pc \in {"get_hostname", "get_port_number"}
             => (accepted = returns /\ Pending = 0 /\ w_pc = "run"))
    /\ [](InHandler => InWaitBlock)
    /\ [][(accepted # returns \/ accepted' # returns')
             => UNCHANGED <<m_hostname, m_port_number, host_set,
                            port_set>>]_vars

HandlerReadsHostnameWhileWaiting ==
    w_pc = "header" /\ pc = "blocked" /\ accepted = 2 /\ Configured

\* the I/O thread is writing the error report, the header or an endpoint
Emitting == w_pc \in {"on_process_endpoints", "header", "endpoints"}

\* C16: while the I/O thread is still writing the output of a request,
\* m_resolved is false and the UI thread is inside the wait block, not yet
\* past the predicate; set_resolved(true) happens only after the last
\* endpoint line, and the wait block returns only with the handler over.
OutputBeforeSignal ==
    /\ [](Emitting => (/\ ~m_resolved
                       /\ pc \in {"lock", "wait", "blocked"}
                       /\ signals = accepted - 1
                       /\ returns = accepted - 1))
    /\ [][(m_resolved' /\ ~m_resolved)
             => (w_pc = "set_resolved" /\ index = cur.n)]_vars
    /\ [][returns' # returns => (w_pc = "run" /\ cur = NoResult)]_vars
    /\ [](~InWaitBlock => ~Emitting)

LastEndpointWrittenBeforeSignal ==
    /\ w_pc = "endpoints"
    /\ cur.n >= 1
    /\ index = cur.n
    /\ pc = "blocked"
    /\ ~m_resolved

\* C17: resolve_dns only validates and starts the operation: the step that
\* returns true leaves the handler's state and m_resolved untouched.  Every
\* step of the handler (dispatch, error report, output, set_resolved(true),
\* notify) is a step of the I/O thread, taken while the UI thread stays
\* where it is, and no step of the UI thread changes the handler's state.
CallbackOnIoThreadOnly ==
    /\ [][(pc = "resolve" /\ pc' # pc)
             => /\ UNCHANGED <<w_pc, cur, index, ready, m_resolved, signals,
                               errors, mutex, wakeup>>
                /\ ret' = "true"
                      => (inflight' = inflight + 1 /\ pc' = "lock")]_vars
    /\ [][(signals' # signals \/ errors' # errors \/ cur' # cur
              \/ index' # index \/ w_pc' # w_pc)
             => (UNCHANGED <<pc, m_exit, has_blocked>>
                    /\ w_pc \notin {"exited"})]_vars
    /\ [][(m_resolved' /\ ~m_resolved)
             => (pc' = pc /\ w_pc = "set_resolved" /\ mutex = "io"
                    /\ signals' = signals + 1)]_vars
    /\ [][pc' # pc => UNCHANGED <<w_pc, cur, index, signals, errors>>]_vars

ReturnedTrueBeforeHandlerRan ==
    /\ pc = "lock"
    /\ ret = "true"
    /\ inflight = 1
    /\ w_pc = "run"
    /\ signals = 0
    /\ ~has_blocked

\* C18: no wakeup is lost.  A UI thread that tests the predicate after the
\* signal goes on without blocking; a UI thread that is blocked when the
\* signal is made has been notified once notify_one is over; and under fair
\* scheduling every signalled request has its wait block return, however
\* the signal and the UI thread's lock and wait steps interleave.
NoLostWakeup ==
    /\ [][(pc = "wait" /\ m_resolved /\ pc' # pc)
             => (pc' = "clear" /\ has_blocked' = has_blocked)]_vars
    /\ []((pc = "blocked" /\ m_resolved /\ w_pc # "notify") => wakeup)
    /\ \A k \in 1..MaxRequests :
          (signals = k /\ returns = k - 1) ~> (pc = "input" /\ returns = k)

SignalledBeforeLockTaken ==
    pc = "lock" /\ m_resolved /\ ~has_blocked /\ w_pc = "run" /\ mutex = "none"

\* C19: in the program of main() a resolve_dns call returns true exactly
\* when set_hostname and set_port_number have both been called before it;
\* otherwise it is rejected and the UI thread goes to display_commands
\* without waiting.  The command loop never stores an empty value, so a
\* field is non-empty exactly when its setter has been called, and once
\* both have been called they stay so.
ResolveIffBothSet ==
    /\ [][(pc = "resolve" /\ pc' # pc)
             => /\ ret' = "true" <=> (host_set /\ port_set)
                /\ ret' = "true" => (pc' = "lock" /\ accepted' = accepted + 1)
                /\ ret' # "true" => (pc' = "display" /\ accepted' = accepted)]_vars
    /\ [](host_set <=> m_hostname # <<>>)
    /\ [](port_set <=> m_port_number # <<>>)
    /\ [][(host_set => host_set') /\ (port_set => port_set')]_vars

RejectedWithoutHostname ==
    pc = "display" /\ ret = "false" /\ port_set /\ ~host_set /\ accepted = 0

====
